---------------------------- MODULE Spec2Model ----------------------------
(***************************************************************************)
(* A model of scripts/updateapilist.py: the script that lists the          *)
(* repositories of an organization, keeps the Python client libraries,     *)
(* fetches each one's .repo-metadata.json, sorts the resulting clients,    *)
(* renders a table and splices it between two marker lines of README.rst.  *)
(*                                                                         *)
(* A Python str is modelled as the sequence of its code points, so that    *)
(* startswith, replace, <, concatenation, and the splitting of a file into *)
(* lines are computed rather than assumed.  A comment after every string   *)
(* constant gives its text.                                                *)
(*                                                                         *)
(* README.rst is the text its bytes decode to: the encoding of the file is *)
(* UTF-8 and the line separator of the system is "\n", so that reading     *)
(* turns "\r\n" and "\r" into "\n", writing leaves "\n" and "\r" as they   *)
(* are, and a string holding a surrogate cannot be written.                *)
(***************************************************************************)
EXTENDS Integers, Sequences, FiniteSets, TLC

VARIABLES
    pc,             \* position of the script (or of the driver of one function)
    token_set,      \* 'GITHUB_TOKEN' in os.environ
    chain,          \* environment: the pages the listing endpoint serves, in 'next' order
    requests,       \* history: the network requests issued so far, in order
    first_request,  \* all_clients: first_request
    response,       \* all_clients: index in chain of the last response (0: none yet)
    response_json,  \* the records of the response being filtered
    idx,            \* position of the list comprehension in response_json
    examined,       \* history: the records the list comprehension has examined, each
                    \* with the verdict of allowed_repo
    batch,          \* the list the comprehension has built so far
    fetched,        \* all_clients: clients (descriptors and None)
    arrival,        \* a second order in which the same descriptors are collected
    clients,        \* module level: clients = sorted(all_clients())
    clients_alt,    \* sorted(arrival)
    table_contents, \* module level: table_contents
    readme_exists,  \* README.rst is a file of the working directory
    readme,         \* the text of README.rst (empty when there is no file)
    readme0,        \* history: the text of README.rst when the run started
    applied,        \* history: the blocks replace_content_in_readme was called with
    repl_open       \* replace_content_in_readme: repl_open when the read loop ended

vars == <<pc, token_set, chain, requests, first_request, response, response_json,
          idx, examined, batch, fetched, arrival, clients, clients_alt, table_contents,
          readme_exists, readme, readme0, applied, repl_open>>

-----------------------------------------------------------------------------
(* Strings *)

\* "\n"
NL == 10
\* "\r"
CR == 13
\* the surrogate code points, U+D800 to U+DFFF, which UTF-8 does not encode
SURROGATE_FIRST == 55296
SURROGATE_LAST == 57343

\* str.startswith(prefix)
startswith(s, prefix) ==
    /\ Len(prefix) <= Len(s)
    /\ \A i \in 1..Len(prefix) : s[i] = prefix[i]

\* str.__lt__: lexicographic comparison of code points; a proper prefix is smaller
RECURSIVE str_lt(_, _)
str_lt(s, t) ==
    IF t = <<>> THEN FALSE
    ELSE IF s = <<>> THEN TRUE
    ELSE IF s[1] # t[1] THEN s[1] < t[1]
    ELSE str_lt(Tail(s), Tail(t))

\* str.replace(old, ""): every non-overlapping occurrence of old, left to right
RECURSIVE str_remove(_, _)
str_remove(s, old) ==
    IF s = <<>> THEN <<>>
    ELSE IF startswith(s, old) THEN str_remove(SubSeq(s, Len(old) + 1, Len(s)), old)
    ELSE <<s[1]>> \o str_remove(Tail(s), old)

\* the concatenation of a list of strings ("".join, or writing them one after another)
RECURSIVE concat(_)
concat(ss) == IF ss = <<>> THEN <<>> ELSE ss[1] \o concat(Tail(ss))

-----------------------------------------------------------------------------
(* replace_content_in_readme *)

\* ".. API_TABLE_START"
START_MARKER == <<46, 46, 32, 65, 80, 73, 95, 84, 65, 66, 76, 69, 95, 83, 84, 65, 82, 84>> (* ".. API_TABLE_START" *)
\* ".. API_TABLE_END"
END_MARKER == <<46, 46, 32, 65, 80, 73, 95, 84, 65, 66, 76, 69, 95, 69, 78, 68>> (* ".. API_TABLE_END" *)

\* What a file opened with open(name, "r") hands to its reader: universal newlines,
\* "\r\n" and a lone "\r" both arrive as "\n".
universal_newlines(text) ==
    LET positions == [i \in 1..Len(text) |-> i]
        kept == SelectSeq(positions,
                          LAMBDA i : ~(text[i] = NL /\ i > 1 /\ text[i - 1] = CR))
    IN [k \in 1..Len(kept) |-> IF text[kept[k]] = CR THEN NL ELSE text[kept[k]]]

\* a text cut after each "\n"; the last piece ends in none when the text does not
RECURSIVE split_lines(_)
split_lines(text) ==
    IF text = <<>> THEN <<>>
    ELSE LET ends == {i \in 1..Len(text) : text[i] = NL}
             e == IF ends = {} THEN Len(text)
                  ELSE CHOOSE i \in ends : \A j \in ends : i <= j
         IN <<SubSeq(text, 1, e)>> \o split_lines(SubSeq(text, e + 1, Len(text)))

\* `for line in f`: the lines of README.rst as the read loop sees them
file_lines(text) == split_lines(universal_newlines(text))

\* f.write(line) does not raise: the line can be encoded (UTF-8, the encoding of
\* the file: every code point but a surrogate)
encodable(line) ==
    \A i \in 1..Len(line) : line[i] < SURROGATE_FIRST \/ line[i] > SURROGATE_LAST

\* the lines the write loop writes before f.write raises, all of them when none does
RECURSIVE written_lines(_)
written_lines(newlines) ==
    IF newlines = <<>> THEN <<>>
    ELSE IF ~encodable(newlines[1]) THEN <<>>
    ELSE <<newlines[1]>> \o written_lines(Tail(newlines))

\* lines 69-71: open("README.rst", "w") empties the file, then each line is written
\* ("\n" is written as os.linesep, which is "\n"; "\r" is written as it is) until
\* one cannot be encoded: the text of the file afterwards, and whether the loop ended
file_write(newlines) ==
    [text |-> concat(written_lines(newlines)),
     ok   |-> \A i \in 1..Len(newlines) : encodable(newlines[i])]

\* the state of the read loop before the first line
patch_start == [newlines |-> <<>>, repl_open |-> FALSE]

\* the end-marker branch: a blank line, the marker line, and copying resumes
end_branch(copied, line) ==
    [newlines |-> copied \o <<<<NL>>, line>>, repl_open |-> FALSE]

\* one iteration of the read loop
patch_line(st, line, content_rows) ==
    LET copied == IF ~st.repl_open THEN Append(st.newlines, line) ELSE st.newlines
    IN IF startswith(line, START_MARKER)
         THEN [newlines |-> copied \o content_rows, repl_open |-> TRUE]
       ELSE IF startswith(line, END_MARKER)
         THEN end_branch(copied, line)
       ELSE [newlines |-> copied, repl_open |-> st.repl_open]

RECURSIVE patch_loop(_, _, _)
patch_loop(st, lines, content_rows) ==
    IF lines = <<>> THEN st
    ELSE patch_loop(patch_line(st, lines[1], content_rows), Tail(lines), content_rows)

\* the read loop over the whole file: newlines and repl_open when it ends
patch_read(text, content_rows) ==
    patch_loop(patch_start, file_lines(text), content_rows)

\* replace_content_in_readme(content_rows) on an existing README.rst: the text of
\* the file afterwards, and whether the function returned (ok) or raised
replace_content_in_readme(text, content_rows) ==
    file_write(patch_read(text, content_rows).newlines)

-----------------------------------------------------------------------------
(* CloudClient *)

\* "Google "
GOOGLE_ == <<71, 111, 111, 103, 108, 101, 32>> (* "Google " *)
\* "Cloud "
CLOUD_ == <<67, 108, 111, 117, 100, 32>> (* "Cloud " *)

\* CloudClient.__init__(repo), repo the parsed .repo-metadata.json
CloudClient(repo) ==
    [repo              |-> repo.repo,
     title             |-> str_remove(str_remove(repo.name_pretty, GOOGLE_), CLOUD_),
     release_level     |-> repo.release_level,
     distribution_name |-> repo.distribution_name]

\* (lt_levels_ascending: __lt__ with the release levels compared the other way;
\* lt_ignores_title: __lt__ on the release level alone)
lt_levels_ascending(self, other) ==
    IF self.release_level = other.release_level
      THEN str_lt(self.title, other.title)
    ELSE str_lt(self.release_level, other.release_level)
lt_ignores_title(self, other) ==
    str_lt(other.release_level, self.release_level)

\* CloudClient.__lt__
lt(self, other) ==
    IF self.release_level = other.release_level
      THEN str_lt(self.title, other.title)
    ELSE str_lt(other.release_level, self.release_level)

\* One insertion of the sort: x goes before the first element it is less than,
\* hence after every element it is not less than (the sort is stable).
insert(xs, x) ==
    LET larger == {i \in 1..Len(xs) : lt(x, xs[i])}
        at == IF larger = {} THEN Len(xs) + 1
              ELSE CHOOSE i \in larger : \A j \in larger : i <= j
    IN SubSeq(xs, 1, at - 1) \o <<x>> \o SubSeq(xs, at, Len(xs))

\* sorted(xs) on a list of CloudClient: a stable sort that compares with __lt__ only
RECURSIVE sorted(_)
sorted(xs) ==
    IF xs = <<>> THEN <<>>
    ELSE insert(sorted(SubSeq(xs, 1, Len(xs) - 1)), xs[Len(xs)])

-----------------------------------------------------------------------------
(* client_row, generate_table_contents *)

\* the (content_row, pypi_badge) pair of client_row
client_row(client) ==
    [content_row |->
        << <<32, 32, 32, 42, 32, 45, 32, 96>> (* "   * - `" *) \o client.title \o <<32, 60, 104, 116, 116, 112, 115, 58, 47, 47, 103, 105, 116, 104, 117, 98, 46, 99, 111, 109, 47>> (* " <https://github.com/" *)
               \o client.repo \o <<62, 96, 95, 10>> (* ">`_\n" *),
           <<32, 32, 32, 32, 32, 45, 32, 124>> (* "     - |" *) \o client.release_level \o <<124, 10, 32, 32, 32, 32, 32, 45, 32, 124, 80, 121, 80, 73, 45>> (* "|\n     - |PyPI-" *)
               \o client.distribution_name \o <<124, 10>> (* "|\n" *) >>,
     pypi_badge |->
        <<46, 46, 32, 124, 80, 121, 80, 73, 45>> (* ".. |PyPI-" *) \o client.distribution_name
            \o <<124, 32, 105, 109, 97, 103, 101, 58, 58, 32, 104, 116, 116, 112, 115, 58, 47, 47, 105, 109, 103, 46, 115, 104, 105, 101, 108, 100, 115, 46, 105, 111, 47, 112, 121, 112, 105, 47, 118, 47>> (* "| image:: https://img.shields.io/pypi/v/" *)
            \o client.distribution_name
            \o <<46, 115, 118, 103, 10, 32, 32, 32, 32, 32, 58, 116, 97, 114, 103, 101, 116, 58, 32, 104, 116, 116, 112, 115, 58, 47, 47, 112, 121, 112, 105, 46, 111, 114, 103, 47, 112, 114, 111, 106, 101, 99, 116, 47>> (* ".svg\n     :target: https://pypi.org/project/" *)
            \o client.distribution_name \o <<10>> (* "\n" *)]

\* the initial content_rows of generate_table_contents
TABLE_HEADER ==
    << <<10>> (* "\n" *),
       <<46, 46, 32, 108, 105, 115, 116, 45, 116, 97, 98, 108, 101, 58, 58, 10>> (* ".. list-table::\n" *),
       <<32, 32, 32, 58, 104, 101, 97, 100, 101, 114, 45, 114, 111, 119, 115, 58, 32, 49, 10>> (* "   :header-rows: 1\n" *),
       <<10>> (* "\n" *),
       <<32, 32, 32, 42, 32, 45, 32, 67, 108, 105, 101, 110, 116, 10>> (* "   * - Client\n" *),
       <<32, 32, 32, 32, 32, 45, 32, 82, 101, 108, 101, 97, 115, 101, 32, 76, 101, 118, 101, 108, 10>> (* "     - Release Level\n" *),
       <<32, 32, 32, 32, 32, 45, 32, 86, 101, 114, 115, 105, 111, 110, 10>> (* "     - Version\n" *) >>

\* the loop of generate_table_contents: acc is (content_rows, pypi_links)
RECURSIVE table_loop(_, _)
table_loop(acc, cs) ==
    IF cs = <<>> THEN acc
    ELSE LET row == client_row(cs[1])
         IN table_loop([content_rows |-> acc.content_rows \o row.content_row,
                        pypi_links   |-> Append(acc.pypi_links, row.pypi_badge)],
                       Tail(cs))

\* (generate_table_contents_badges_reversed: the badges gathered in reverse)
generate_table_contents_badges_reversed(cs) ==
    LET RECURSIVE rev(_)
        rev(xs) == IF xs = <<>> THEN <<>> ELSE Append(rev(Tail(xs)), xs[1])
        done == table_loop([content_rows |-> TABLE_HEADER, pypi_links |-> <<>>], cs)
    IN done.content_rows \o << <<NL>> >> \o rev(done.pypi_links)

\* generate_table_contents(clients)
generate_table_contents(cs) ==
    LET done == table_loop([content_rows |-> TABLE_HEADER, pypi_links |-> << <<NL>> >>], cs)
    IN done.content_rows \o done.pypi_links

-----------------------------------------------------------------------------
(* allowed_repo, client_for_repo *)

\* "googleapis/python-"
REPO_PREFIX == <<103, 111, 111, 103, 108, 101, 97, 112, 105, 115, 47, 112, 121, 116, 104, 111, 110, 45>> (* "googleapis/python-" *)

REPO_EXCLUSION ==
    << <<103, 111, 111, 103, 108, 101, 97, 112, 105, 115, 47, 112, 121, 116, 104, 111, 110, 45, 97, 112, 105, 45, 99, 111, 114, 101>> (* "googleapis/python-api-core" *),
       <<103, 111, 111, 103, 108, 101, 97, 112, 105, 115, 47, 112, 121, 116, 104, 111, 110, 45, 99, 108, 111, 117, 100, 45, 99, 111, 114, 101>> (* "googleapis/python-cloud-core" *),
       <<103, 111, 111, 103, 108, 101, 97, 112, 105, 115, 47, 112, 121, 116, 104, 111, 110, 45, 111, 114, 103, 45, 112, 111, 108, 105, 99, 121>> (* "googleapis/python-org-policy" *),
       <<103, 111, 111, 103, 108, 101, 97, 112, 105, 115, 47, 112, 121, 116, 104, 111, 110, 45, 111, 115, 45, 99, 111, 110, 102, 105, 103>> (* "googleapis/python-os-config" *),
       <<103, 111, 111, 103, 108, 101, 97, 112, 105, 115, 47, 112, 121, 116, 104, 111, 110, 45, 97, 99, 99, 101, 115, 115, 45, 99, 111, 110, 116, 101, 120, 116, 45, 109, 97, 110, 97, 103, 101, 114>> (* "googleapis/python-access-context-manager" *),
       <<103, 111, 111, 103, 108, 101, 97, 112, 105, 115, 47, 112, 121, 116, 104, 111, 110, 45, 97, 112, 105, 45, 99, 111, 109, 109, 111, 110, 45, 112, 114, 111, 116, 111, 115>> (* "googleapis/python-api-common-protos" *),
       <<103, 111, 111, 103, 108, 101, 97, 112, 105, 115, 47, 112, 121, 116, 104, 111, 110, 45, 116, 101, 115, 116, 45, 117, 116, 105, 108, 115>> (* "googleapis/python-test-utils" *) >>

\* `x in REPO_EXCLUSION`
in_list(x, xs) == \E i \in 1..Len(xs) : xs[i] = x

\* (allowed_repo_no_exclusion: the same without the exclusion list)
allowed_repo_no_exclusion(repo) ==
    /\ startswith(repo.full_name, REPO_PREFIX)
    /\ ~repo.archived

\* allowed_repo(repo)
allowed_repo(repo) ==
    /\ startswith(repo.full_name, REPO_PREFIX)
    /\ ~in_list(repo.full_name, REPO_EXCLUSION)
    /\ ~repo.archived

\* Python's None
None == [none |-> TRUE]

\* `if client`: None is false, a CloudClient (no __bool__, no __len__) is true
truthy(client) == client # None

\* `[client for client in clients if client]`
RECURSIVE remove_empty(_)
remove_empty(cs) ==
    IF cs = <<>> THEN <<>>
    ELSE IF truthy(cs[1]) THEN <<cs[1]>> \o remove_empty(Tail(cs))
    ELSE remove_empty(Tail(cs))

-----------------------------------------------------------------------------
(* Inputs: the environment the script runs in *)

\* the most records the listing endpoint serves in one run, over all its pages
MaxRepos == 3
\* the longest chain of pages: the page with this number carries no 'next' link
MaxPages == 3
\* the most descriptors handed to sorted() and to generate_table_contents
MaxClients == 3
\* the most records of a response handed to the filter
MaxBatch == 2
\* the most lines of README.rst
MaxDocLines == 5
\* the most runs of the patcher on the same file
MaxRuns == 2

\* every sequence over S of length at most n
SeqsUpTo(S, n) == UNION {[1..k -> S] : k \in 0..n}

\* the .repo-metadata.json documents of the environment
MetadataChoices ==
    { [repo |-> <<103, 111, 111, 103, 108, 101, 97, 112, 105, 115, 47, 112, 121, 116, 104, 111, 110, 45, 115, 116, 111, 114, 97, 103, 101>> (* "googleapis/python-storage" *), name_pretty |-> <<71, 111, 111, 103, 108, 101, 32, 67, 108, 111, 117, 100, 32, 83, 116, 111, 114, 97, 103, 101>> (* "Google Cloud Storage" *),
       release_level |-> <<115, 116, 97, 98, 108, 101>> (* "stable" *), distribution_name |-> <<103, 111, 111, 103, 108, 101, 45, 99, 108, 111, 117, 100, 45, 115, 116, 111, 114, 97, 103, 101>> (* "google-cloud-storage" *)],
      [repo |-> <<103, 111, 111, 103, 108, 101, 97, 112, 105, 115, 47, 112, 121, 116, 104, 111, 110, 45, 122, 101, 116, 97>> (* "googleapis/python-zeta" *), name_pretty |-> <<90, 101, 116, 97>> (* "Zeta" *),
       release_level |-> <<115, 116, 97, 98, 108, 101>> (* "stable" *), distribution_name |-> <<103, 111, 111, 103, 108, 101, 45, 122, 101, 116, 97>> (* "google-zeta" *)],
      [repo |-> <<103, 111, 111, 103, 108, 101, 97, 112, 105, 115, 47, 112, 121, 116, 104, 111, 110, 45, 97, 108, 112, 104, 97>> (* "googleapis/python-alpha" *), name_pretty |-> <<71, 111, 111, 103, 108, 101, 32, 67, 108, 111, 117, 100, 32, 65, 108, 112, 104, 97>> (* "Google Cloud Alpha" *),
       release_level |-> <<112, 114, 101, 118, 105, 101, 119>> (* "preview" *), distribution_name |-> <<103, 111, 111, 103, 108, 101, 45, 99, 108, 111, 117, 100, 45, 97, 108, 112, 104, 97>> (* "google-cloud-alpha" *)],
      [repo |-> <<103, 111, 111, 103, 108, 101, 97, 112, 105, 115, 47, 112, 121, 116, 104, 111, 110, 45, 97, 108, 112, 104, 97, 45, 118, 50>> (* "googleapis/python-alpha-v2" *), name_pretty |-> <<67, 108, 111, 117, 100, 32, 65, 108, 112, 104, 97>> (* "Cloud Alpha" *),
       release_level |-> <<112, 114, 101, 118, 105, 101, 119>> (* "preview" *), distribution_name |-> <<103, 111, 111, 103, 108, 101, 45, 99, 108, 111, 117, 100, 45, 97, 108, 112, 104, 97, 45, 118, 50>> (* "google-cloud-alpha-v2" *)],
      [repo |-> <<103, 111, 111, 103, 108, 101, 97, 112, 105, 115, 47, 112, 121, 116, 104, 111, 110, 45, 111, 100, 100>> (* "googleapis/python-odd" *), name_pretty |-> <<55296>> (* "\ud800" *),
       release_level |-> <<115, 116, 97, 98, 108, 101>> (* "stable" *), distribution_name |-> <<103, 111, 111, 103, 108, 101, 45, 99, 108, 111, 117, 100, 45, 111, 100, 100>> (* "google-cloud-odd" *)] }

\* the document served for a slug
MetadataOf(slug) == CHOOSE m \in MetadataChoices : m.repo = slug

\* the descriptors the sort and the table generator are tried on
ClientChoices == {CloudClient(m) : m \in MetadataChoices}

\* the records the listing endpoint serves in the pipeline: a client library, a
\* client library whose title is a lone surrogate, and an excluded core library
RepoChoices ==
    { [full_name |-> <<103, 111, 111, 103, 108, 101, 97, 112, 105, 115, 47, 112, 121, 116, 104, 111, 110, 45, 115, 116, 111, 114, 97, 103, 101>> (* "googleapis/python-storage" *), archived |-> FALSE],
      [full_name |-> <<103, 111, 111, 103, 108, 101, 97, 112, 105, 115, 47, 112, 121, 116, 104, 111, 110, 45, 111, 100, 100>> (* "googleapis/python-odd" *), archived |-> FALSE],
      [full_name |-> <<103, 111, 111, 103, 108, 101, 97, 112, 105, 115, 47, 112, 121, 116, 104, 111, 110, 45, 97, 112, 105, 45, 99, 111, 114, 101>> (* "googleapis/python-api-core" *), archived |-> FALSE] }

\* the full names the filter is tried on: the exclusion list, a client library, another
\* language's library, a name that extends an excluded one, the bare prefix, and
\* the prefix cut short
NameChoices ==
    {REPO_EXCLUSION[i] : i \in 1..Len(REPO_EXCLUSION)} \cup
    { <<103, 111, 111, 103, 108, 101, 97, 112, 105, 115, 47, 112, 121, 116, 104, 111, 110, 45, 115, 116, 111, 114, 97, 103, 101>> (* "googleapis/python-storage" *),
      <<103, 111, 111, 103, 108, 101, 97, 112, 105, 115, 47, 106, 97, 118, 97, 45, 115, 116, 111, 114, 97, 103, 101>> (* "googleapis/java-storage" *),
      <<103, 111, 111, 103, 108, 101, 97, 112, 105, 115, 47, 112, 121, 116, 104, 111, 110, 45, 97, 112, 105, 45, 99, 111, 114, 101, 45, 120>> (* "googleapis/python-api-core-x" *),
      <<103, 111, 111, 103, 108, 101, 97, 112, 105, 115, 47, 112, 121, 116, 104, 111, 110, 45>> (* "googleapis/python-" *),
      <<103, 111, 111, 103, 108, 101, 97, 112, 105, 115, 47, 112, 121, 116, 104, 111, 110>> (* "googleapis/python" *) }

FilterChoices == [full_name : NameChoices, archived : BOOLEAN]

\* the lines README.rst is put together from
DocLines ==
    { <<97, 10>> (* "a\n" *), <<46, 46, 32, 65, 80, 73, 95, 84, 65, 66, 76, 69, 95, 83, 84, 65, 82, 84, 10>> (* ".. API_TABLE_START\n" *), <<46, 46, 32, 65, 80, 73, 95, 84, 65, 66, 76, 69, 95, 69, 78, 68, 10>> (* ".. API_TABLE_END\n" *) }

\* a text without the line terminator of its last line
chop(text) ==
    IF text # <<>> /\ text[Len(text)] = NL THEN SubSeq(text, 1, Len(text) - 1) ELSE text

\* the line terminators of a file: Unix, Windows, old Macintosh
Terminators == { <<10>> (* "\n" *), <<13, 10>> (* "\r\n" *), <<13>> (* "\r" *) }

\* a text with each "\n" replaced by the terminator t
with_terminator(text, t) ==
    concat([i \in 1..Len(text) |-> IF text[i] = NL THEN t ELSE <<text[i]>>])

\* the documents the patcher is tried on: every sequence of at most MaxDocLines
\* lines, the last line with and without its line terminator, in each of the
\* three line-terminator conventions
Documents ==
    LET whole == {concat(ls) : ls \in SeqsUpTo(DocLines, MaxDocLines)}
        texts == whole \cup {chop(text) : text \in whole}
    IN {with_terminator(text, t) : text \in texts, t \in Terminators}

\* the blocks the patcher is tried on: an element of two lines, with a "\r" in the
\* first, and an element that ends no line; a block that holds an end-marker line;
\* a block whose second element holds a lone surrogate
Blocks ==
    { << <<88, 13, 120, 10, 89, 10>> (* "X\rx\nY\n" *), <<90>> (* "Z" *) >>,
      << <<46, 46, 32, 65, 80, 73, 95, 84, 65, 66, 76, 69, 95, 69, 78, 68, 10>> (* ".. API_TABLE_END\n" *) >>,
      << <<88, 10>> (* "X\n" *), <<55296, 10>> (* "\ud800\n" *), <<89, 10>> (* "Y\n" *) >> }

\* README.rst at the start of a run of the whole script
README0 == <<65, 10, 46, 46, 32, 65, 80, 73, 95, 84, 65, 66, 76, 69, 95, 83, 84, 65, 82, 84, 10, 111, 108, 100, 49, 10, 111, 108, 100, 50, 10, 46, 46, 32, 65, 80, 73, 95, 84, 65, 66, 76, 69, 95, 69, 78, 68, 10, 66, 10>> (* "A\n.. API_TABLE_START\nold1\nold2\n.. API_TABLE_END\nB\n" *)

-----------------------------------------------------------------------------
(* The script, statement by statement *)

\* where the script is after an exception: nothing catches it, the run ends
on_exception == "aborted"

\* where the loop of all_clients goes after a response with no records: break
\* (on_empty_page_continue: back to the while condition)
on_empty_page_continue == "while"
on_empty_page == "return"

\* `'next' in response.links` after at least one response
has_next == chain[response].next

\* the while condition of all_clients
loop_continues == IF first_request THEN TRUE ELSE has_next

\* the records served so far
RECURSIVE served_records(_)
served_records(pages) ==
    IF pages = <<>> THEN <<>> ELSE pages[1].records \o served_records(Tail(pages))

\* the responses the listing endpoint can give to the request for page number n
PageChoices(n) ==
    [records : SeqsUpTo(RepoChoices, MaxRepos - Len(served_records(chain))),
     next    : IF n < MaxPages THEN BOOLEAN ELSE {FALSE}]

\* lines 166-167: the token precondition
CheckToken ==
    /\ pc = "start"
    /\ pc' = IF token_set THEN "all_clients" ELSE "aborted"
    /\ UNCHANGED <<token_set, chain, requests, first_request, response, response_json,
                   idx, examined, batch, fetched, arrival, clients, clients_alt,
                   table_contents, readme_exists, readme, readme0, applied, repl_open>>

\* lines 147-149: the locals of all_clients; os.environ[...] raises when the token is absent
EnterAllClients ==
    /\ pc = "all_clients"
    /\ fetched' = <<>>
    /\ first_request' = TRUE
    /\ pc' = IF token_set THEN "while" ELSE on_exception
    /\ UNCHANGED <<token_set, chain, requests, response, response_json, idx, examined,
                   batch, arrival, clients, clients_alt, table_contents, readme_exists, readme,
                   readme0, applied, repl_open>>

\* lines 151-160: one listing request, up to the test for an empty page
RequestPage ==
    /\ pc = "while"
    /\ loop_continues
    /\ LET url == IF first_request THEN 1 ELSE response + 1
       IN /\ first_request' = FALSE
          /\ \/ /\ requests' = Append(requests, [kind |-> "list", page |-> url, status |-> "error"])
                /\ pc' = on_exception
                /\ UNCHANGED <<chain, response, response_json, idx, batch>>
             \/ \E page \in PageChoices(url) :
                /\ requests' = Append(requests, [kind |-> "list", page |-> url, status |-> "ok"])
                /\ chain' = Append(chain, page)
                /\ response' = url
                /\ IF Len(page.records) = 0
                     THEN /\ pc' = on_empty_page
                          /\ UNCHANGED <<response_json, idx, batch>>
                     ELSE /\ pc' = "batch"
                          /\ response_json' = page.records
                          /\ idx' = 1
                          /\ batch' = <<>>
    /\ UNCHANGED <<token_set, examined, fetched, arrival, clients, clients_alt,
                   table_contents, readme_exists, readme, readme0, applied, repl_open>>

\* line 151: the while condition is false
LoopExit ==
    /\ pc = "while"
    /\ ~loop_continues
    /\ pc' = "return"
    /\ UNCHANGED <<token_set, chain, requests, first_request, response, response_json,
                   idx, examined, batch, fetched, arrival, clients, clients_alt,
                   table_contents, readme_exists, readme, readme0, applied, repl_open>>

\* line 144: a record the filter rejects
SkipRepo ==
    /\ pc = "batch"
    /\ idx <= Len(response_json)
    /\ ~allowed_repo(response_json[idx])
    /\ idx' = idx + 1
    /\ examined' = Append(examined, [repo |-> response_json[idx], allowed |-> FALSE])
    /\ UNCHANGED <<pc, token_set, chain, requests, first_request, response,
                   response_json, batch, fetched, arrival, clients, clients_alt,
                   table_contents, readme_exists, readme, readme0, applied, repl_open>>

\* what client_for_repo returns for a response of the given status
client_for_repo_result(slug, status) ==
    IF status = "ok" THEN CloudClient(MetadataOf(slug)) ELSE None

\* lines 144, 112-118: a record the filter accepts, and client_for_repo on it.
\* status: "ok" (200 and a metadata document), "miss" (another status code),
\* "error" (the request or the decoding of its answer raises)
ClientForRepo ==
    /\ pc = "batch"
    /\ idx <= Len(response_json)
    /\ allowed_repo(response_json[idx])
    /\ examined' = Append(examined, [repo |-> response_json[idx], allowed |-> TRUE])
    /\ \E status \in {"ok", "miss", "error"} :
        /\ requests' = Append(requests, [kind |-> "metadata",
                                         slug |-> response_json[idx].full_name,
                                         status |-> status])
        /\ IF status = "error"
             THEN /\ pc' = on_exception
                  /\ UNCHANGED <<idx, batch>>
             ELSE /\ batch' = Append(batch, client_for_repo_result(
                                                response_json[idx].full_name, status))
                  /\ idx' = idx + 1
                  /\ pc' = pc
    /\ UNCHANGED <<token_set, chain, first_request, response, response_json, fetched,
                   arrival, clients, clients_alt, table_contents, readme_exists, readme, readme0,
                   applied, repl_open>>

\* line 161: clients.extend(batch), and back to the while condition
ExtendClients ==
    /\ pc = "batch"
    /\ idx > Len(response_json)
    /\ fetched' = fetched \o batch
    /\ pc' = "while"
    /\ UNCHANGED <<token_set, chain, requests, first_request, response, response_json,
                   idx, examined, batch, arrival, clients, clients_alt, table_contents,
                   readme_exists, readme, readme0, applied, repl_open>>

\* (all_clients_result_unfiltered: every element of clients, None included)
all_clients_result_unfiltered(cs) == cs

\* line 164: the value all_clients returns
all_clients_result(cs) == remove_empty(cs)

\* lines 163-164: all_clients returns
ReturnClients ==
    /\ pc = "return"
    /\ fetched' = all_clients_result(fetched)
    /\ arrival' = all_clients_result(fetched)
    /\ pc' = "sort"
    /\ UNCHANGED <<token_set, chain, requests, first_request, response, response_json,
                   idx, examined, batch, clients, clients_alt, table_contents, readme_exists, readme,
                   readme0, applied, repl_open>>

\* line 169: clients = sorted(...); the same descriptors collected in the order
\* `arrival` are sorted beside them
Sort ==
    /\ pc = "sort"
    /\ clients' = sorted(fetched)
    /\ clients_alt' = sorted(arrival)
    /\ pc' = "generate"
    /\ UNCHANGED <<token_set, chain, requests, first_request, response, response_json,
                   idx, examined, batch, fetched, arrival, table_contents, readme_exists, readme, readme0,
                   applied, repl_open>>

\* line 170
GenerateTable ==
    /\ pc = "generate"
    /\ table_contents' = generate_table_contents(clients)
    /\ pc' = "patch"
    /\ UNCHANGED <<token_set, chain, requests, first_request, response, response_json,
                   idx, examined, batch, fetched, arrival, clients, clients_alt, readme_exists, readme,
                   readme0, applied, repl_open>>

\* line 171: replace_content_in_readme(table_contents).  open("README.rst", "r")
\* raises when there is no such file, before anything is written; f.write raises on
\* a line that cannot be encoded, with the file already emptied and the lines before
\* that one written.  Nothing catches either exception.
ReplaceContent ==
    /\ pc = "patch"
    /\ applied' = Append(applied, table_contents)
    /\ IF ~readme_exists
         THEN /\ pc' = on_exception
              /\ UNCHANGED <<readme, repl_open>>
         ELSE LET written == replace_content_in_readme(readme, table_contents)
              IN /\ readme' = written.text
                 /\ repl_open' = patch_read(readme, table_contents).repl_open
                 /\ pc' = IF written.ok THEN "done" ELSE on_exception
    /\ UNCHANGED <<token_set, chain, requests, first_request, response, response_json,
                   idx, examined, batch, fetched, arrival, clients, clients_alt,
                   table_contents, readme_exists, readme0>>

\* the parts of the state a specification that draws no input for them starts from
NoNetwork ==
    /\ token_set = TRUE
    /\ chain = <<>>
    /\ requests = <<>>
    /\ first_request = TRUE
    /\ response = 0
    /\ batch = <<>>
NoFilter ==
    /\ response_json = <<>>
    /\ idx = 1
    /\ examined = <<>>
NoPatch ==
    /\ readme_exists = TRUE
    /\ readme = README0
    /\ readme0 = README0
    /\ applied = <<>>
    /\ repl_open = FALSE

\* The whole script, with or without the token in the environment, and with or
\* without a README.rst in the working directory.
Init ==
    /\ pc = "start"
    /\ token_set \in BOOLEAN
    /\ chain = <<>>
    /\ requests = <<>>
    /\ first_request = TRUE
    /\ response = 0
    /\ batch = <<>>
    /\ NoFilter
    /\ fetched = <<>>
    /\ arrival = <<>>
    /\ clients = <<>>
    /\ clients_alt = <<>>
    /\ table_contents = <<>>
    /\ readme_exists \in BOOLEAN
    /\ readme = (IF readme_exists THEN README0 ELSE <<>>)
    /\ readme0 = readme
    /\ applied = <<>>
    /\ repl_open = FALSE

Next ==
    \/ CheckToken
    \/ EnterAllClients
    \/ RequestPage
    \/ LoopExit
    \/ SkipRepo
    \/ ClientForRepo
    \/ ExtendClients
    \/ ReturnClients
    \/ Sort
    \/ GenerateTable
    \/ ReplaceContent

Spec == Init /\ [][Next]_vars

-----------------------------------------------------------------------------
(* The functions of the script, each on inputs drawn from a bounded set *)

\* every order of the elements of xs
Orders(xs) ==
    LET n == Len(xs)
        bijections == {p \in [1..n -> 1..n] : \A i, j \in 1..n : p[i] = p[j] => i = j}
    IN {[i \in 1..n |-> xs[p[i]]] : p \in bijections}

\* sorted() on every list of descriptors, and on the same descriptors in another order
InitSort ==
    /\ pc = "sort"
    /\ NoNetwork
    /\ NoFilter
    /\ fetched \in SeqsUpTo(ClientChoices, MaxClients)
    /\ arrival \in Orders(fetched)
    /\ clients = <<>>
    /\ clients_alt = <<>>
    /\ table_contents = <<>>
    /\ NoPatch

SpecSort == InitSort /\ [][Sort]_vars

\* generate_table_contents on every list of descriptors, sorted or not
InitTable ==
    /\ pc = "generate"
    /\ NoNetwork
    /\ NoFilter
    /\ fetched = <<>>
    /\ arrival = <<>>
    /\ clients \in SeqsUpTo(ClientChoices, MaxClients)
    /\ clients_alt = <<>>
    /\ table_contents = <<>>
    /\ NoPatch

SpecTable == InitTable /\ [][GenerateTable]_vars

\* line 144 without the request: the filter of the list comprehension on one record
FilterRepo ==
    /\ pc = "filter"
    /\ idx <= Len(response_json)
    /\ examined' = Append(examined, [repo    |-> response_json[idx],
                                     allowed |-> allowed_repo(response_json[idx])])
    /\ idx' = idx + 1
    /\ UNCHANGED <<pc, token_set, chain, requests, first_request, response,
                   response_json, batch, fetched, arrival, clients, clients_alt,
                   table_contents, readme_exists, readme, readme0, applied, repl_open>>

\* allowed_repo on every response of at most MaxBatch records
InitFilter ==
    /\ pc = "filter"
    /\ NoNetwork
    /\ response_json \in SeqsUpTo(FilterChoices, MaxBatch)
    /\ idx = 1
    /\ examined = <<>>
    /\ fetched = <<>>
    /\ arrival = <<>>
    /\ clients = <<>>
    /\ clients_alt = <<>>
    /\ table_contents = <<>>
    /\ NoPatch

SpecFilter == InitFilter /\ [][FilterRepo]_vars

\* the script is run again on the file the last run left, however that run ended,
\* with another table
NextRun ==
    /\ pc \in {"done", "aborted"}
    /\ Len(applied) < MaxRuns
    /\ \E b \in Blocks : table_contents' = b
    /\ pc' = "patch"
    /\ UNCHANGED <<token_set, chain, requests, first_request, response, response_json,
                   idx, examined, batch, fetched, arrival, clients, clients_alt,
                   readme_exists, readme, readme0, applied, repl_open>>

\* replace_content_in_readme on every document and block, run after run
InitPatch ==
    /\ pc = "patch"
    /\ NoNetwork
    /\ NoFilter
    /\ fetched = <<>>
    /\ arrival = <<>>
    /\ clients = <<>>
    /\ clients_alt = <<>>
    /\ table_contents \in Blocks
    /\ readme_exists = TRUE
    /\ readme \in Documents
    /\ readme0 = readme
    /\ applied = <<>>
    /\ repl_open = FALSE

NextPatch == ReplaceContent \/ NextRun

SpecPatch == InitPatch /\ [][NextPatch]_vars

-----------------------------------------------------------------------------
(* The document patcher: claims C1, C7, C10, under SpecPatch *)

\* the lines of a text with the line terminators it has: a line ends after "\n",
\* and after a "\r" that no "\n" follows
RECURSIVE original_lines(_)
original_lines(text) ==
    IF text = <<>> THEN <<>>
    ELSE LET ends == {i \in 1..Len(text) :
                        \/ text[i] = NL
                        \/ (text[i] = CR /\ (i = Len(text) \/ text[i + 1] # NL))}
             e == IF ends = {} THEN Len(text)
                  ELSE CHOOSE i \in ends : \A j \in ends : i <= j
         IN <<SubSeq(text, 1, e)>> \o original_lines(SubSeq(text, e + 1, Len(text)))

\* the numbers of the lines of a text that begin with the start marker, the end marker
StartLines(text) ==
    LET lines == original_lines(text)
    IN {i \in 1..Len(lines) : startswith(lines[i], START_MARKER)}
EndLines(text) ==
    LET lines == original_lines(text)
    IN {i \in 1..Len(lines) : startswith(lines[i], END_MARKER)}

\* exactly one start-marker line, followed later by exactly one end-marker line
OneRegion(text) ==
    /\ Cardinality(StartLines(text)) = 1
    /\ Cardinality(EndLines(text)) = 1
    /\ \A s \in StartLines(text) : \A e \in EndLines(text) : s < e

\* no line of the block's text begins with either marker
CleanBlock(block) ==
    /\ StartLines(concat(block)) = {}
    /\ EndLines(concat(block)) = {}

\* every line of the text ends in "\n" or is the last; every string of the block can
\* be encoded
LfOnly(text) == \A i \in 1..Len(text) : text[i] # CR
Encodable(block) == \A i \in 1..Len(block) : encodable(block[i])

\* the first run of the patcher has ended, by returning or by raising: readme0 was
\* its input, applied[1] its block
FirstRunOver == pc \in {"done", "aborted"} /\ Len(applied) = 1
FirstRunDone == pc = "done" /\ Len(applied) = 1

\* the document the patcher is claimed to leave: the original lines up to and
\* including the start-marker line, the block, one blank line, the end-marker line,
\* the original lines after it
Spliced(text, block) ==
    LET lines == original_lines(text)
        s == CHOOSE i \in StartLines(text) : TRUE
        e == CHOOSE i \in EndLines(text) : TRUE
    IN concat(SubSeq(lines, 1, s) \o block \o << <<NL>>, lines[e] >>
                \o SubSeq(lines, e + 1, Len(lines)))

\* C1, as claimed: when the document holds exactly one start-marker line followed
\* later by exactly one end-marker line, then for every block the rewritten document
\* is the original lines up to and including the start-marker line, then the block,
\* then one blank line, then the end-marker line, then the original lines after it,
\* verbatim; the lines that were between the markers are gone.
C1_PatchSplicesBlock ==
    (FirstRunOver /\ OneRegion(readme0)) => readme = Spliced(readme0, applied[1])

\* a first run on a document with lines before, between and after the markers, all
\* ending in "\r\n", and a block that can be encoded: the run returns, and the
\* document it leaves is not the claimed one
C1_Witness ==
    /\ FirstRunDone
    /\ OneRegion(readme0)
    /\ Encodable(applied[1])
    /\ \E s \in StartLines(readme0) : \E e \in EndLines(readme0) :
          s > 1 /\ e > s + 1 /\ e < Len(original_lines(readme0))
    /\ \A i \in 1..Len(readme0) : readme0[i] = NL => (i > 1 /\ readme0[i - 1] = CR)
    /\ readme # Spliced(readme0, applied[1])

\* What the patcher does do on such a document: when every line of the document
\* ends in "\n" and every string of the block can be encoded, the run returns and
\* leaves the claimed document; in every case the document it leaves is the claimed
\* one with "\r\n" and "\r" at the end of an original line replaced by "\n", cut
\* before the first string that cannot be encoded.
PatchSplicesAsRead ==
    (FirstRunOver /\ OneRegion(readme0)) =>
        LET lines == file_lines(readme0)
            s == CHOOSE i \in StartLines(readme0) : TRUE
            e == CHOOSE i \in EndLines(readme0) : TRUE
            newlines == SubSeq(lines, 1, s) \o applied[1] \o << <<NL>>, lines[e] >>
                          \o SubSeq(lines, e + 1, Len(lines))
        IN /\ Len(lines) = Len(original_lines(readme0))
           /\ readme = concat(written_lines(newlines))
           /\ pc = "done" <=> Encodable(applied[1])
           /\ (LfOnly(readme0) /\ Encodable(applied[1])) =>
                 (pc = "done" /\ readme = Spliced(readme0, applied[1]))

\* C7, as claimed: when the start-marker line or the end-marker line is absent,
\* the rewritten document is the original, and the read loop ends with repl_open
\* false (COPYING).
C7_MissingMarkerCopiesThrough ==
    (FirstRunDone /\ (StartLines(readme0) = {} \/ EndLines(readme0) = {})) =>
        readme = readme0 /\ ~repl_open

\* C10, as claimed: on a document with exactly one start-marker line followed by
\* exactly one end-marker line, and blocks none of whose lines begins with a marker,
\* the document after several runs is the document one run with the last block gives.
C10_RerunEqualsOneRun ==
    (/\ pc \in {"done", "aborted"}
     /\ Len(applied) >= 2
     /\ OneRegion(readme0)
     /\ \A k \in 1..Len(applied) : CleanBlock(applied[k])) =>
        readme = replace_content_in_readme(readme0, applied[Len(applied)]).text

\* two runs on a document with one region: the first raises on a block that cannot
\* be encoded, the second returns, and the document is not the one a single run
\* with the second block gives
C10_Witness ==
    /\ pc = "done"
    /\ Len(applied) = 2
    /\ OneRegion(readme0)
    /\ \A k \in 1..2 : CleanBlock(applied[k])
    /\ ~Encodable(applied[1])
    /\ Encodable(applied[2])
    /\ readme # replace_content_in_readme(readme0, applied[2]).text

\* What re-running does do: when every run before the last returned, the document
\* is the one a single run with the last block gives.
RerunAfterReturns ==
    (/\ pc \in {"done", "aborted"}
     /\ Len(applied) >= 2
     /\ OneRegion(readme0)
     /\ \A k \in 1..Len(applied) : CleanBlock(applied[k])
     /\ \A k \in 1..(Len(applied) - 1) : Encodable(applied[k])) =>
        readme = replace_content_in_readme(readme0, applied[Len(applied)]).text

-----------------------------------------------------------------------------
(* The ordering of the descriptors: claims C3, C8, under SpecSort *)

\* the (release level, title) pair of a descriptor, and of each descriptor of a list
key(c) == <<c.release_level, c.title>>
keys(cs) == [i \in 1..Len(cs) |-> key(cs[i])]

\* no two different descriptors of the list share their (release level, title) pair
NoSharedKey(cs) ==
    \A i, j \in 1..Len(cs) : key(cs[i]) = key(cs[j]) => cs[i] = cs[j]

\* sorted() has acted
Sorted == pc = "generate"

\* C3: the sorted collection is a permutation of the input in which, at positions
\* i < j, different release levels put the lexically greater level at i, and equal
\* release levels put the titles in ascending lexical order; __lt__ is irreflexive
\* and transitive, and compares any two descriptors with different (level, title).
C3_SortedByLevelThenTitle ==
    /\ Sorted =>
        /\ clients \in Orders(fetched)
        /\ \A i, j \in 1..Len(clients) : i < j =>
              IF clients[i].release_level # clients[j].release_level
                THEN str_lt(clients[j].release_level, clients[i].release_level)
                ELSE ~str_lt(clients[j].title, clients[i].title)
    /\ \A a, b, c \in ClientChoices :
        /\ ~lt(a, a)
        /\ (lt(a, b) /\ lt(b, c)) => lt(a, c)
        /\ key(a) # key(b) => (lt(a, b) \/ lt(b, a))

\* a sort that moved something, over two release levels and two titles of one level
C3_Witness ==
    /\ Sorted
    /\ Len(clients) = 3
    /\ clients # fetched
    /\ clients[1].release_level # clients[3].release_level
    /\ \E i, j \in 1..3 : /\ clients[i].release_level = clients[j].release_level
                          /\ clients[i].title # clients[j].title

\* C8, as claimed: whatever the order in which the descriptors are collected, the
\* sorted sequence of descriptors is the same.
C8_SameSequenceAnyOrder == Sorted => clients = clients_alt

\* C8, amended: whatever the order in which the descriptors are collected, the
\* sorted sequences carry the same (release level, title) pair at every position,
\* and they are the same sequence when no two different descriptors share a pair.
C8_SameKeysAnyOrder ==
    Sorted =>
        /\ keys(clients) = keys(clients_alt)
        /\ NoSharedKey(fetched) => clients = clients_alt

\* three descriptors of two release levels, no pair shared, collected in two orders
C8_Witness ==
    /\ Sorted
    /\ Len(fetched) = 3
    /\ arrival # fetched
    /\ NoSharedKey(fetched)
    /\ \A i, j \in 1..3 : i # j => fetched[i] # fetched[j]
    /\ \E i, j \in 1..3 : fetched[i].release_level # fetched[j].release_level

-----------------------------------------------------------------------------
(* The table generator: claim C9, under SpecTable *)

\* sub occurs in s
contains(s, sub) ==
    \E k \in 0..(Len(s) - Len(sub)) : SubSeq(s, k + 1, k + Len(sub)) = sub

\* C9: the table is the header block, then the row of each descriptor in input
\* order (naming its title, repo, release level and distribution name), then one
\* blank line, then the badge definition of each descriptor in the same order, built
\* from its distribution name.
C9_TableLayout ==
    pc = "patch" =>
        LET n == Len(clients)
            h == Len(TABLE_HEADER)
            t == table_contents
        IN /\ Len(t) = h + 2 * n + 1 + n
           /\ SubSeq(t, 1, h) = TABLE_HEADER
           /\ \A i \in 1..n :
                /\ SubSeq(t, h + 2 * i - 1, h + 2 * i) = client_row(clients[i]).content_row
                /\ contains(t[h + 2 * i - 1], clients[i].title)
                /\ contains(t[h + 2 * i - 1], clients[i].repo)
                /\ contains(t[h + 2 * i], clients[i].release_level)
                /\ contains(t[h + 2 * i], clients[i].distribution_name)
           /\ t[h + 2 * n + 1] = <<NL>>
           /\ \A i \in 1..n :
                /\ t[h + 2 * n + 1 + i] = client_row(clients[i]).pypi_badge
                /\ contains(t[h + 2 * n + 1 + i], clients[i].distribution_name)

\* a table of three descriptors, no two the same
C9_Witness ==
    /\ pc = "patch"
    /\ Len(clients) = 3
    /\ \A i, j \in 1..3 : i # j => clients[i].distribution_name # clients[j].distribution_name

-----------------------------------------------------------------------------
(* The repository filter: claim C6, under SpecFilter *)

ExcludedNames == {REPO_EXCLUSION[i] : i \in 1..Len(REPO_EXCLUSION)}

\* C6: the filter accepts a record exactly when its full name begins with
\* "googleapis/python-", is not in REPO_EXCLUSION, and the record is not archived.
C6_FilterVerdict ==
    pc = "filter" =>
        \A k \in 1..Len(examined) :
            LET r == examined[k].repo
            IN /\ r = response_json[k]
               /\ examined[k].allowed <=>
                    /\ Len(r.full_name) >= Len(REPO_PREFIX)
                    /\ SubSeq(r.full_name, 1, Len(REPO_PREFIX)) = REPO_PREFIX
                    /\ r.full_name \notin ExcludedNames
                    /\ r.archived = FALSE

\* an accepted record, then an excluded name that has the prefix and is not archived
C6_Witness ==
    /\ pc = "filter"
    /\ Len(examined) = 2
    /\ examined[1].allowed
    /\ ~examined[2].allowed
    /\ examined[2].repo.full_name \in ExcludedNames
    /\ ~examined[2].repo.archived

-----------------------------------------------------------------------------
(* The pipeline: claims C2, C4, C5, under Spec *)

\* the listing requests and the metadata requests issued so far
ListRequests == SelectSeq(requests, LAMBDA r : r.kind = "list")
MetadataRequests == SelectSeq(requests, LAMBDA r : r.kind = "metadata")

\* the served records the filter allows
AllowedServed == SelectSeq(served_records(chain), allowed_repo)

\* a step of the loop of all_clients
ListerStep == RequestPage \/ LoopExit \/ SkipRepo \/ ClientForRepo \/ ExtendClients

\* the positions of the script after the loop of all_clients
AfterLoop == {"return", "sort", "generate", "patch", "done"}

\* every request of the pipeline has been made, and none has failed
PipelineComplete ==
    /\ \A k \in 1..Len(requests) : requests[k].status # "error"
    /\ chain # <<>>
    /\ chain[Len(chain)].records = <<>> \/ ~chain[Len(chain)].next
    /\ Len(ListRequests) = Len(chain)
    /\ Len(MetadataRequests) = Len(AllowedServed)

\* C2, as claimed: the document is written only after the token precondition has
\* passed and every listing and metadata request has completed; without the token
\* no request is made; in a run that aborts the document is as it was.
C2_AllOrNothing ==
    /\ ~token_set => requests = <<>>
    /\ readme # readme0 => (token_set /\ PipelineComplete)
    /\ pc = "done" => (token_set /\ PipelineComplete)
    /\ pc = "aborted" => readme = readme0

\* a run that made every request, raised in the write loop, and left the document
\* cut before its end-marker line
C2_Witness ==
    /\ pc = "aborted"
    /\ token_set
    /\ PipelineComplete
    /\ applied # <<>>
    /\ readme # readme0
    /\ EndLines(readme) = {}

\* What the script does do: the write is not reached before the token precondition
\* has passed and every request has completed; a run that aborts before the write
\* (no token, a failed request) or at the opening of a README.rst that is not there
\* leaves the document as it was.
AbortBeforeWriteKeepsDocument ==
    /\ ~token_set => requests = <<>>
    /\ applied # <<>> => (token_set /\ PipelineComplete)
    /\ applied = <<>> => readme = readme0
    /\ ~readme_exists => readme = readme0

\* the descriptors of the metadata requests that succeeded, in order
RECURSIVE descriptors_of(_)
descriptors_of(metas) ==
    IF metas = <<>> THEN <<>>
    ELSE IF metas[1].status = "ok"
      THEN <<CloudClient(MetadataOf(metas[1].slug))>> \o descriptors_of(Tail(metas))
    ELSE descriptors_of(Tail(metas))

\* C4: a metadata response that is not a success does not abort the run, and what
\* all_clients returns holds no None and exactly one descriptor for each allowed
\* record whose metadata request succeeded, in listing order.
C4_SkipOnMiss ==
    /\ (pc = "aborted" /\ applied = <<>> /\ requests # <<>>) =>
          requests[Len(requests)].status = "error"
    /\ (pc = "aborted" /\ applied = <<>> /\ requests = <<>>) => ~token_set
    /\ pc = "sort" =>
        /\ Len(MetadataRequests) = Len(AllowedServed)
        /\ \A k \in 1..Len(AllowedServed) :
              /\ MetadataRequests[k].slug = AllowedServed[k].full_name
              /\ MetadataRequests[k].status \in {"ok", "miss"}
        /\ fetched = descriptors_of(MetadataRequests)
        /\ \A i \in 1..Len(fetched) : fetched[i] # None

\* all_clients has returned two descriptors, in listing order, and skipped a miss
C4_Witness ==
    /\ pc = "sort"
    /\ Len(fetched) = 2
    /\ fetched[1] # fetched[2]
    /\ \E k \in 1..Len(requests) : requests[k].kind = "metadata" /\ requests[k].status = "miss"

\* C5: the lister requests page 1, then each page's 'next' target in order, each
\* once, and no more than the chain has; it goes on only after a response that has
\* records and a 'next' link, and stops after the first response with no records or
\* with no 'next' link; every record of the pages it received has been examined, in
\* order; inside the loop it can always take its next step.
C5_ListerFollowsChain ==
    /\ \A k \in 1..Len(ListRequests) : ListRequests[k].page = k
    /\ Len(ListRequests) <= MaxPages
    /\ \A k \in 1..(Len(chain) - 1) : chain[k].records # <<>> /\ chain[k].next
    /\ pc \in AfterLoop =>
        /\ chain # <<>>
        /\ chain[Len(chain)].records = <<>> \/ ~chain[Len(chain)].next
    /\ pc \in AfterLoop \cup {"while"} =>
        [k \in 1..Len(examined) |-> examined[k].repo] = served_records(chain)
    /\ pc \in {"while", "batch"} => ENABLED ListerStep

\* the lister has stopped at a second page that has no records but has a 'next' link
C5_Witness ==
    /\ pc = "return"
    /\ Len(chain) = 2
    /\ chain[1].records # <<>>
    /\ chain[2].records = <<>>
    /\ chain[2].next
    /\ Len(ListRequests) = 2

=============================================================================
